---------------------------- MODULE Spec2Model ----------------------------
(***************************************************************************)
(* Model of the outbound-HTTP plugin of src/plugins/http_output.go:        *)
(* httpOutput.Run renders a request from the task, httpOutput.send races   *)
(* the round trip of a worker goroutine against the task's cancellation,   *)
(* and Run maps the response back into the task.                           *)
(*                                                                         *)
(* Go strings are sequences of one-character strings, so that expansion,   *)
(* decimal formatting, integer parsing, header canonicalisation and the    *)
(* regular-expression match are computed and not assumed.                  *)
(***************************************************************************)
EXTENDS Integers, Sequences, FiniteSets

(***************************************************************************)
(* Bounds of the model.                                                    *)
(***************************************************************************)
NumTasks == 2          \* tasks that exist; Spec dispatches the first
MaxFinishRuns == 2     \* times the pipeline runs a task's finish callbacks

Tasks == 1..NumTasks

(***************************************************************************)
(* Characters and strings.                                                 *)
(***************************************************************************)
Digits == <<"0", "1", "2", "3", "4", "5", "6", "7", "8", "9">>
Lowers == <<"a", "b", "c", "d", "e", "f", "g", "h", "i", "j", "k", "l", "m",
            "n", "o", "p", "q", "r", "s", "t", "u", "v", "w", "x", "y", "z">>
Uppers == <<"A", "B", "C", "D", "E", "F", "G", "H", "I", "J", "K", "L", "M",
            "N", "O", "P", "Q", "R", "S", "T", "U", "V", "W", "X", "Y", "Z">>

Range(f) == {f[i] : i \in DOMAIN f}
IndexOf(tab, c) == CHOOSE i \in DOMAIN tab : tab[i] = c
IsDigit(c) == c \in Range(Digits)
IsLower(c) == c \in Range(Lowers)
IsUpper(c) == c \in Range(Uppers)
ToUpper(c) == IF IsLower(c) THEN Uppers[IndexOf(Lowers, c)] ELSE c
ToLower(c) == IF IsUpper(c) THEN Lowers[IndexOf(Uppers, c)] ELSE c
DigitVal(c) == IndexOf(Digits, c) - 1
IsHex(c) == IsDigit(c) \/ ToLower(c) \in {"a", "b", "c", "d", "e", "f"}

HasPrefix(s, p) == Len(s) >= Len(p) /\ SubSeq(s, 1, Len(p)) = p

\* The strings of the configurations and tasks of the model.
S_http == <<"h", "t", "t", "p", ":", "/", "/">>
S_https == <<"h", "t", "t", "p", "s", ":", "/", "/">>
S_POST == <<"P", "O", "S", "T">>
S_UserAgent == <<"U", "s", "e", "r", "-", "A", "g", "e", "n", "t">>
S_EaseGateway == <<"E", "a", "s", "e", "G", "a", "t", "e", "w", "a", "y">>
K_in == <<"i", "n">>
K_k == <<"k">>
K_code == <<"c", "o", "d", "e">>
K_body == <<"b", "o", "d", "y">>
K_len == <<"H", "T", "T", "P", "_", "C", "O", "N", "T", "E", "N", "T", "_",
           "L", "E", "N", "G", "T", "H">>

(***************************************************************************)
(* Task values: the dynamically typed values of the task's state.          *)
(***************************************************************************)
Nil == [t |-> "nil", s |-> <<>>, n |-> 0]
Str(s) == [t |-> "str", s |-> s, n |-> 0]
IntV(n) == [t |-> "int", s |-> <<>>, n |-> n]
Stream(n) == [t |-> "stream", s |-> <<>>, n |-> n]     \* a request stream of n bytes
BodyOf(d) == [t |-> "body", s |-> <<>>, n |-> d]       \* the response body of dispatch d

\* t.Value(key): the value under key, nil when absent
Value(vals, key) == IF key \in DOMAIN vals THEN vals[key] ELSE Nil

\* the state written by task.WithValue(t, key, value): the newest value wins
WithValue(vals, key, value) ==
    [k \in DOMAIN vals \cup {key} |-> IF k = key THEN value ELSE vals[k]]

\* a type assertion that accepts every value
IsReaderAny(v) == TRUE

\* inputValue.(io.Reader): a request stream or a response body is a reader
IsReader(v) == v.t \in {"stream", "body"}

(***************************************************************************)
(* Conversions of the standard library and of the task package, computed   *)
(* as the libraries compute them.                                          *)
(***************************************************************************)
\* width of the integers of strconv.ParseInt(clen, 10, 64), scaled to the
\* integers the model checker has
IntBits == 8

RECURSIVE Pow2(_)
Pow2(n) == IF n = 0 THEN 1 ELSE 2 * Pow2(n - 1)

\* task.ToString(resp.StatusCode, limit): the decimal digits of a natural
RECURSIVE ToString(_)
ToString(n) ==
    IF n < 10 THEN <<Digits[n + 1]>>
    ELSE ToString(n \div 10) \o <<Digits[(n % 10) + 1]>>

\* strconv.ParseUint(s, 10, bits) from position i on, with the value read
\* so far: a syntax error yields 0, a range error the largest value
RECURSIVE ParseUintFrom(_, _, _, _)
ParseUintFrom(s, i, acc, bits) ==
    IF i > Len(s) THEN [n |-> acc, err |-> "none"]
    ELSE IF ~IsDigit(s[i]) THEN [n |-> 0, err |-> "syntax"]
    ELSE LET next == acc * 10 + DigitVal(s[i])
         IN  IF next > Pow2(bits) - 1
             THEN [n |-> Pow2(bits) - 1, err |-> "range"]
             ELSE ParseUintFrom(s, i + 1, next, bits)

\* strconv.ParseInt(s, 10, bits)
ParseInt(s, bits) ==
    LET neg == Len(s) > 0 /\ s[1] = "-"
        signed == Len(s) > 0 /\ s[1] \in {"+", "-"}
        ds == IF signed THEN Tail(s) ELSE s
        un == ParseUintFrom(ds, 1, 0, bits)
        cutoff == Pow2(bits - 1)
    IN  IF Len(ds) = 0 \/ un.err = "syntax" THEN [n |-> 0, err |-> "syntax"]
        ELSE IF ~neg /\ un.n >= cutoff THEN [n |-> cutoff - 1, err |-> "range"]
        ELSE IF neg /\ un.n > cutoff THEN [n |-> 0 - cutoff, err |-> "range"]
        ELSE [n |-> IF neg THEN 0 - un.n ELSE un.n, err |-> "none"]

\* a byte allowed in a header field name (an HTTP token byte)
ValidHeaderFieldByte(c) ==
    \/ IsDigit(c) \/ IsLower(c) \/ IsUpper(c)
    \/ c \in {"!", "#", "$", "%", "&", "+", "-", ".", "^", "_", "~"}

\* the key req.Header.Set stores a name under: the canonical form of a name
\* made of token bytes, any other name unchanged
CanonicalHeaderKey(s) ==
    IF \E i \in DOMAIN s : ~ValidHeaderFieldByte(s[i]) THEN s
    ELSE [i \in DOMAIN s |->
            IF i = 1 \/ s[i - 1] = "-" THEN ToUpper(s[i]) ELSE ToLower(s[i])]

\* url.Parse(link) inside http.NewRequest rejects a percent sign that does
\* not start an escape of two hexadecimal digits
URLParses(link) ==
    \A i \in DOMAIN link :
        link[i] = "%" =>
            /\ i + 2 <= Len(link)
            /\ IsHex(link[i + 1])
            /\ IsHex(link[i + 2])

\* the transport of http.Client performs a round trip for http and https only
HasHTTPScheme(link) == HasPrefix(link, S_http) \/ HasPrefix(link, S_https)

\* regexp.MatchString for expressions made of literal characters, "." and a
\* postfix "*": the expression matches at position j of s
RECURSIVE MatchHere(_, _, _, _)
MatchHere(re, i, s, j) ==
    IF i > Len(re) THEN TRUE
    ELSE IF i + 1 <= Len(re) /\ re[i + 1] = "*"
    THEN \E m \in j..(Len(s) + 1) :
            /\ \A x \in j..(m - 1) : re[i] = "." \/ re[i] = s[x]
            /\ MatchHere(re, i + 2, s, m)
    ELSE /\ j <= Len(s)
         /\ (re[i] = "." \/ re[i] = s[j])
         /\ MatchHere(re, i + 1, s, j + 1)

\* (*regexp.Regexp).MatchString: an unanchored search
MatchString(re, s) == \E j \in 1..(Len(s) + 1) : MatchHere(re, 1, s, j)

(***************************************************************************)
(* The template expander (common.ScanTokens and ReplaceTokensInPattern).   *)
(* A pattern refers to a task field as [key].  The expansion fails on an   *)
(* unclosed bracket and, with a task, on a field the task does not hold;   *)
(* a failed expansion returns the empty string with the error.             *)
(***************************************************************************)
\* the first position from i on that holds c, or 0
RECURSIVE Find(_, _, _)
Find(s, i, c) ==
    IF i > Len(s) THEN 0 ELSE IF s[i] = c THEN i ELSE Find(s, i + 1, c)

\* the text a task value expands to
ValueText(v) ==
    IF v.t = "str" THEN v.s ELSE IF v.t = "int" THEN ToString(v.n) ELSE <<>>

\* common.ScanTokens from position i on; resolve is FALSE for the nil
\* visitor of Prepare, which checks the syntax only
RECURSIVE ScanFrom(_, _, _, _)
ScanFrom(p, i, vals, resolve) ==
    IF i > Len(p) THEN [s |-> <<>>, err |-> FALSE]
    ELSE IF p[i] = "["
    THEN LET j == Find(p, i + 1, "]")
             key == SubSeq(p, i + 1, j - 1)
             v == Value(vals, key)
         IN  IF j = 0 \/ (resolve /\ v.t = "nil") THEN [s |-> <<>>, err |-> TRUE]
             ELSE LET rest == ScanFrom(p, j + 1, vals, resolve)
                      text == IF resolve THEN ValueText(v) ELSE SubSeq(p, i, j)
                  IN  IF rest.err THEN rest
                      ELSE [s |-> text \o rest.s, err |-> FALSE]
    ELSE LET rest == ScanFrom(p, i + 1, vals, resolve)
         IN  IF rest.err THEN rest ELSE [s |-> <<p[i]>> \o rest.s, err |-> FALSE]

\* ReplaceTokensInPattern(t, pattern): the expansion and whether it failed
ReplaceTokensInPattern(vals, pattern) == ScanFrom(pattern, 1, vals, TRUE)

(***************************************************************************)
(* Validation of the configuration: httpOutputConfig.Prepare.              *)
(***************************************************************************)
\* strings.TrimSpace: leading and trailing spaces are cut
RECURSIVE TrimSpace(_)
TrimSpace(s) ==
    IF Len(s) = 0 THEN s
    ELSE IF s[1] = " " THEN TrimSpace(Tail(s))
    ELSE IF s[Len(s)] = " " THEN TrimSpace(SubSeq(s, 1, Len(s) - 1))
    ELSE s

\* the scheme of a URL: the letters before the first colon, in lower case
SchemeOf(s) ==
    LET colon == Find(s, 1, ":")
    IN  IF colon > 1 /\ \A i \in 1..(colon - 1) : IsLower(s[i]) \/ IsUpper(s[i])
        THEN [i \in 1..(colon - 1) |-> ToLower(s[i])]
        ELSE <<>>

\* the host of a URL: what follows "//" after the scheme, up to the next
\* slash and without a port
HostnameOf(s) ==
    LET scheme == SchemeOf(s)
        rest == IF scheme = <<>> THEN s ELSE SubSeq(s, Len(scheme) + 2, Len(s))
        auth == IF HasPrefix(rest, <<"/", "/">>) THEN SubSeq(rest, 3, Len(rest)) ELSE <<>>
        slash == Find(auth, 1, "/")
        host == IF slash = 0 THEN auth ELSE SubSeq(auth, 1, slash - 1)
        port == Find(host, 1, ":")
    IN  IF port = 0 THEN host ELSE SubSeq(host, 1, port - 1)

\* url.ParseRequestURI succeeds: the URL is not empty, is absolute or starts
\* with a slash, holds no space and no broken escape
ParseRequestURI(s) ==
    /\ Len(s) > 0
    /\ s[1] # ":"
    /\ SchemeOf(s) # <<>> \/ s[1] = "/"
    /\ \A i \in DOMAIN s : s[i] # " "
    /\ URLParses(s)

\* line 75-77: the URL parses, is absolute, has a host and the scheme http
\* or https
ValidURL(s) ==
    /\ ParseRequestURI(s)
    /\ SchemeOf(s) # <<>>
    /\ HostnameOf(s) # <<>>
    /\ SchemeOf(s) \o <<":", "/", "/">> \in {S_http, S_https}

\* common.ScanTokens(pattern, false, nil): the syntax of a pattern
ScanTokens(pattern) == ScanFrom(pattern, 1, [x \in {} |-> <<>>], FALSE)

\* the methods of the allow-list
supportedMethods ==
    {<<"G", "E", "T">>, S_POST, <<"P", "U", "T">>,
     <<"D", "E", "L", "E", "T", "E">>, <<"H", "E", "A", "D">>}

\* the errors Prepare returns
NoPrepareError == "nil"
ErrCommon == "common config"
ErrURL == "invalid url"
ErrURLPattern == "invalid url pattern"
ErrHeaderName == "invalid header name"
ErrHeaderNamePattern == "invalid header name pattern"
ErrHeaderValuePattern == "invalid header value pattern"
ErrMethod == "invalid http method"
ErrResponseCode == "invalid expected response code"
ErrBodyPattern == "invalid body buffer pattern"
ErrKeyPair == "invalid PEM eoncoded certificate and/or preivate key file(s)"
ErrCAFile == "invalid PEM eoncoded CA certificate file"

\* line 65-73: the fields Prepare trims in place
Trimmed(c) ==
    [c EXCEPT !.URLPattern = TrimSpace(@),
              !.RequestBodyIOKey = TrimSpace(@),
              !.Method = TrimSpace(@),
              !.ExpectedResponseCode = TrimSpace(@),
              !.CertFile = TrimSpace(@),
              !.KeyFile = TrimSpace(@),
              !.CAFile = TrimSpace(@),
              !.ResponseCodeKey = TrimSpace(@),
              !.ResponseBodyIOKey = TrimSpace(@)]

\* line 75-85: the checks of the URL pattern
URLError(c) ==
    IF ~ValidURL(c.URLPattern) THEN ErrURL
    ELSE IF ScanTokens(c.URLPattern).err THEN ErrURLPattern
    ELSE NoPrepareError

\* line 88-100: the checks of one entry of the header patterns
HeaderEntryError(name, value) ==
    IF Len(TrimSpace(name)) = 0 THEN ErrHeaderName
    ELSE IF ScanTokens(name).err THEN ErrHeaderNamePattern
    ELSE IF ScanTokens(value).err THEN ErrHeaderValuePattern
    ELSE NoPrepareError

\* line 87-101: the loop over the header patterns, visiting the names in the
\* order o from position i on; the first error ends it
RECURSIVE HeaderPatternsError(_, _, _)
HeaderPatternsError(patterns, o, i) ==
    IF i > Len(o) THEN NoPrepareError
    ELSE LET err == HeaderEntryError(o[i], patterns[o[i]])
         IN  IF err # NoPrepareError THEN err
             ELSE HeaderPatternsError(patterns, o, i + 1)

\* a validation without the check of the method
MethodErrorSkipped(c) == NoPrepareError

\* line 103-106: the method is one of the allow-list
MethodError(c) ==
    IF c.Method \in supportedMethods THEN NoPrepareError ELSE ErrMethod

\* the value of a *regexp.Regexp that is nil
NilRegexp == <<"nil">>

\* regexp.Compile for expressions made of literal characters, "." and a
\* postfix "*": a "*" needs an argument and cannot follow a "*"
Compiles(re) ==
    \A i \in DOMAIN re : re[i] = "*" => i > 1 /\ re[i - 1] # "*"

\* line 108: c.expectedResponseCode, err = regexp.Compile(...), nil on error
CompileExpected(c) ==
    [c EXCEPT !.expectedResponseCode =
        IF Compiles(c.ExpectedResponseCode) THEN c.ExpectedResponseCode ELSE NilRegexp]

\* the files of the host: a certificate, its private key, a CA certificate
F_cert == <<"c">>
F_key == <<"k">>
F_ca == <<"a">>

\* tls.LoadX509KeyPair succeeds on a certificate and its private key
LoadX509KeyPair(certFile, keyFile) == certFile = F_cert /\ keyFile = F_key

\* ioutil.ReadFile succeeds on a file that is there
ReadFile(file) == file \in {F_cert, F_key, F_ca}

\* c.cert and c.caCert that are nil
NoCert == <<>>
NoCACert == <<>>

\* line 122-128: the client certificate
LoadCert(c) ==
    IF Len(c.CertFile) # 0 /\ Len(c.KeyFile) # 0
    THEN IF LoadX509KeyPair(c.CertFile, c.KeyFile)
         THEN [conf |-> [c EXCEPT !.cert = c.CertFile \o c.KeyFile], err |-> NoPrepareError]
         ELSE [conf |-> c, err |-> ErrKeyPair]
    ELSE [conf |-> c, err |-> NoPrepareError]

\* line 130-135: the CA certificate
LoadCA(c) ==
    IF Len(c.CAFile) # 0
    THEN IF ReadFile(c.CAFile)
         THEN [conf |-> [c EXCEPT !.caCert = c.CAFile], err |-> NoPrepareError]
         ELSE [conf |-> c, err |-> ErrCAFile]
    ELSE [conf |-> c, err |-> NoPrepareError]

\* httpOutputConfig.Prepare on the configuration c, with the header patterns
\* visited in the order o: the configuration it leaves and the error it
\* returns.  The checks run in the order of the code and the first that
\* fails ends the validation
Prepare(c, o) ==
    IF ~c.CommonValid THEN [conf |-> c, err |-> ErrCommon]
    ELSE LET c1 == Trimmed(c)
             c2 == CompileExpected(c1)
             c3 == LoadCert(c2)
             c4 == LoadCA(c3.conf)
         IN  IF URLError(c1) # NoPrepareError
             THEN [conf |-> c1, err |-> URLError(c1)]
             ELSE IF HeaderPatternsError(c1.HeaderPatterns, o, 1) # NoPrepareError
             THEN [conf |-> c1, err |-> HeaderPatternsError(c1.HeaderPatterns, o, 1)]
             ELSE IF MethodError(c1) # NoPrepareError
             THEN [conf |-> c1, err |-> MethodError(c1)]
             ELSE IF c2.expectedResponseCode = NilRegexp
             THEN [conf |-> c2, err |-> ErrResponseCode]
             ELSE IF ScanTokens(c2.RequestBodyBufferPattern).err
             THEN [conf |-> c2, err |-> ErrBodyPattern]
             ELSE IF c3.err # NoPrepareError THEN c3
             ELSE c4

(***************************************************************************)
(* Configurations (httpOutputConfig after Prepare) and tasks of the model. *)
(***************************************************************************)
U_plain == S_http \o <<"h", "/">>
U_field == S_http \o <<"h", "/", "[", "k", "]">>
P_field == <<"[", "k", "]">>
RE_any == <<".", "*">>
RE_2xx == <<"2", ".", ".">>

EmptyMap == [x \in {} |-> <<>>]
H_field == [x \in {<<"x", "-", "[", "k", "]">>} |-> P_field]

\* the timeout HTTPOutputConfigConstructor sets
DefaultTimeoutSec == 120

StatusCodes == {200, 500}
CancelCauses == {"user", "upstream"}

\* the configurations whose request side is drawn from the given patterns
\* they are configurations Prepare has validated: the expression is compiled,
\* no TLS file is configured
ConfigsOf(urls, headers, buffers) ==
    { [c EXCEPT !.ExpectedResponseCode = c.expectedResponseCode] :
        c \in [ URLPattern : urls,
                HeaderPatterns : headers,
                Close : BOOLEAN,
                RequestBodyBufferPattern : buffers,
                Method : {S_POST},
                ExpectedResponseCode : {<<>>},
                expectedResponseCode : {RE_any, RE_2xx},
                TimeoutSec : {0, DefaultTimeoutSec},
                CertFile : {<<>>},
                KeyFile : {<<>>},
                CAFile : {<<>>},
                Insecure : {FALSE},
                cert : {NoCert},
                caCert : {NoCACert},
                RequestBodyIOKey : {<<>>, K_in},
                ResponseCodeKey : {<<>>, K_code},
                ResponseBodyIOKey : {<<>>, K_body, K_code},
                PluginName : {"out"},
                CommonValid : {TRUE} ] }

\* a configuration with a stream body does not read the buffer pattern, and
\* the body published under the key of the code is looked at with that key set
Relevant(c) ==
    /\ c.RequestBodyIOKey # <<>> => c.RequestBodyBufferPattern = <<"b">>
    /\ c.ResponseBodyIOKey = K_code => c.ResponseCodeKey = K_code

Configs == {c \in ConfigsOf({U_plain, U_field}, {EmptyMap, H_field}, {<<"b">>, P_field}) :
               Relevant(c)}

\* the state a task enters Run with: the field the patterns refer to, the
\* request body field and the content-length hint
FieldValues == {Nil, Str(<<"a">>), Str(<<"%">>)}
InputValues == {Nil, Str(<<"x">>), Stream(2)}
HintValues == {Nil, Str(<<"2">>)}

TaskState(field, input, hint) ==
    LET all == [k \in {K_k, K_in, K_len} |->
                   IF k = K_k THEN field ELSE IF k = K_in THEN input ELSE hint]
    IN  [k \in {x \in DOMAIN all : all[x] # Nil} |-> all[k]]

\* the fields a configuration does not read are left out of the task: the
\* body field without request_body_io_key, the hint without a stream
TaskStates(c, hints) ==
    { TaskState(f, i, h) :
        f \in FieldValues,
        i \in IF c.RequestBodyIOKey = <<>> THEN {Nil} ELSE InputValues,
        h \in hints } \
    { TaskState(f, i, h) :
        f \in FieldValues,
        i \in {Nil, Str(<<"x">>)},
        h \in hints \ {Nil} }

(***************************************************************************)
(* State.                                                                  *)
(***************************************************************************)
VARIABLES
    conf,          \* the configuration object: Prepare validates it in
                   \* place, the plugin holds it as h.conf
    prepLog,       \* the runs of Prepare so far: input, result and error
    client,        \* h.client: the client HTTPOutputConstructor built
    vals,          \* vals[d]: the key/value state of task d
    errCode,       \* errCode[d]: the classification of the task's error slot
    errMsg,        \* errMsg[d]: the error of the task's error slot
    setErrors,     \* setErrors[d]: number of calls of t.SetError
    cancelled,     \* cancelled[d]: the channel t.Cancel() is closed
    cancelCause,   \* cancelCause[d]: t.CancelCause()
    cancelAt,      \* cancelAt[d]: where the worker was when t.Cancel() closed
    callbacks,     \* callbacks[d]: names of the registered finish callbacks
    pc,            \* pc[d]: position of the goroutine that calls Run
    req,           \* req[d]: the request Run built
    resp,          \* resp[d]: what send returned to Run
    chosen,        \* chosen[d]: the case the select of send took
    published,     \* published[d]: keys Run wrote with task.WithValue
    w,             \* w[d]: position of the worker goroutine of send
    wres,          \* wres[d]: resp and err of h.client.Do in the worker
    eClosed,       \* eClosed[d]: channel e is closed
    rClosed,       \* rClosed[d]: channel r is closed
    ctxCancelled,  \* ctxCancelled[d]: cancel() of cancelCtx was called
    attempts,      \* attempts[d]: calls of h.client.Do
    body,          \* body[d]: the response body of the round trip
    finishRuns     \* finishRuns[d]: runs of the task's finish callbacks

confVars == <<conf, prepLog, client>>
taskVars == <<vals, errCode, errMsg, setErrors, callbacks>>
cancelVars == <<cancelled, cancelCause, cancelAt>>
runVars == <<pc, req, resp, chosen, published>>
workerVars == <<w, wres, attempts>>
chanVars == <<eClosed, rClosed, ctxCancelled>>
vars == <<confVars, taskVars, cancelVars, runVars, workerVars, chanVars, body, finishRuns>>

NoError == [text |-> "", arg |-> ""]
NoRequest == [method |-> <<>>, link |-> <<>>, linkErr |-> FALSE, expandErr |-> FALSE,
              length |-> 0, limit |-> -1, source |-> "none", buffer |-> <<>>,
              header |-> EmptyMap]
NoResponse == [status |-> 0, err |-> NoError]
NoBody == [exists |-> FALSE, closes |-> 0, read |-> FALSE]

\* the state of the tasks before Run is called on them
InitTasks(first) ==
    /\ errCode = [d \in Tasks |-> "None"]
    /\ errMsg = [d \in Tasks |-> NoError]
    /\ setErrors = [d \in Tasks |-> 0]
    /\ cancelled = [d \in Tasks |-> FALSE]
    /\ cancelCause = [d \in Tasks |-> ""]
    /\ cancelAt = [d \in Tasks |-> ""]
    /\ callbacks = [d \in Tasks |-> {}]
    /\ pc = [d \in Tasks |-> IF d <= first THEN "idle" ELSE "absent"]
    /\ req = [d \in Tasks |-> NoRequest]
    /\ resp = [d \in Tasks |-> NoResponse]
    /\ chosen = [d \in Tasks |-> "none"]
    /\ published = [d \in Tasks |-> {}]
    /\ w = [d \in Tasks |-> "none"]
    /\ wres = [d \in Tasks |-> NoResponse]
    /\ eClosed = [d \in Tasks |-> FALSE]
    /\ rClosed = [d \in Tasks |-> FALSE]
    /\ ctxCancelled = [d \in Tasks |-> FALSE]
    /\ attempts = [d \in Tasks |-> 0]
    /\ body = [d \in Tasks |-> NoBody]
    /\ finishRuns = [d \in Tasks |-> 0]

\* the client HTTPOutputConstructor builds from a configuration (line
\* 153-173), and the client of a plugin that was not constructed
NoClient == [built |-> FALSE, Timeout |-> 0, InsecureSkipVerify |-> FALSE,
             Certificates |-> NoCert, RootCAs |-> NoCACert]
ClientOf(c) == [built |-> TRUE, Timeout |-> c.TimeoutSec, InsecureSkipVerify |-> c.Insecure,
                Certificates |-> c.cert, RootCAs |-> c.caCert]

\* the record of a run of Prepare on the configuration c that left r
PrepareRun(c, r) == [input |-> c, conf |-> r.conf, err |-> r.err]

\* the plugin was set up in the order of the pipeline: Prepare validated the
\* configuration, HTTPOutputConstructor built the client from it
Constructed ==
    /\ prepLog = <<PrepareRun(conf, [conf |-> conf, err |-> NoPrepareError])>>
    /\ client = ClientOf(conf)

\* one task is dispatched through a validated configuration
Init ==
    /\ conf \in Configs
    /\ Constructed
    /\ \E st \in TaskStates(conf, HintValues) :
          vals = [d \in Tasks |-> IF d = 1 THEN st ELSE EmptyMap]
    /\ InitTasks(1)

(***************************************************************************)
(* The task's error slot and the outcomes of the worker.                   *)
(***************************************************************************)
\* t.SetError(err, code) on task d
SetError(d, err, code) ==
    /\ errCode' = [errCode EXCEPT ![d] = code]
    /\ errMsg' = [errMsg EXCEPT ![d] = err]
    /\ setErrors' = [setErrors EXCEPT ![d] = @ + 1]

\* fmt.Errorf("task is cancelled by %s", t.CancelCause())
CancelError(cause) == [text |-> "task is cancelled by", arg |-> cause]

\* the errors h.client.Do returns
TransportErrors == {"connection refused", "client timeout", "context canceled",
                    "unsupported request"}
TransportError(kind) == [text |-> kind, arg |-> ""]

(***************************************************************************)
(* Run, up to the call of send: the request.                               *)
(***************************************************************************)
\* the orders in which range may visit the entries of a map
Orders(m) ==
    {o \in [1..Cardinality(DOMAIN m) -> DOMAIN m] :
        \A i, j \in DOMAIN o : i # j => o[i] # o[j]}

\* req.Header.Set(name, value)
HeaderSet(header, name, value) == WithValue(header, CanonicalHeaderKey(name), value)

\* the loop over h.conf.HeaderPatterns, visiting the names in the order o
\* from position i on
RECURSIVE SetHeaderPatterns(_, _, _, _, _)
SetHeaderPatterns(header, patterns, o, i, tvals) ==
    IF i > Len(o) THEN header
    ELSE LET name1 == ReplaceTokensInPattern(tvals, o[i]).s
             value1 == ReplaceTokensInPattern(tvals, patterns[o[i]]).s
         IN  SetHeaderPatterns(HeaderSet(header, name1, value1), patterns, o, i + 1, tvals)

\* whether an expansion of the header loop fails
HeaderExpansionFails(patterns, tvals) ==
    \E name \in DOMAIN patterns :
        \/ ReplaceTokensInPattern(tvals, name).err
        \/ ReplaceTokensInPattern(tvals, patterns[name]).err

\* a request whose User-Agent is set before the configured headers
RequestHeaderAgentFirst(patterns, o, tvals) ==
    SetHeaderPatterns(HeaderSet(EmptyMap, S_UserAgent, S_EaseGateway), patterns, o, 1, tvals)

\* the headers of the request: the configured ones, then the fixed User-Agent
RequestHeader(patterns, o, tvals) ==
    HeaderSet(SetHeaderPatterns(EmptyMap, patterns, o, 1, tvals), S_UserAgent, S_EaseGateway)

\* length and reader of a stream body, from the HTTP_CONTENT_LENGTH hint
StreamBody(tvals) ==
    LET lenValue == Value(tvals, K_len)
        parsed == ParseInt(lenValue.s, IntBits)
    IN  IF lenValue.t = "str"
        THEN [length |-> parsed.n,
              limit |-> IF parsed.err = "none" /\ parsed.n >= 0 THEN parsed.n ELSE -1]
        ELSE [length |-> 0, limit |-> -1]

\* the request of Run for the task state tvals under configuration c, with
\* the header patterns visited in the order o
BuildRequest(c, tvals, o) ==
    LET link == ReplaceTokensInPattern(tvals, c.URLPattern)
        buf == ReplaceTokensInPattern(tvals, c.RequestBodyBufferPattern)
        stream == c.RequestBodyIOKey # <<>>
        sb == StreamBody(tvals)
    IN  [method |-> c.Method,
         link |-> link.s,
         linkErr |-> link.err,
         expandErr |-> \/ link.err
                       \/ (~stream /\ buf.err)
                       \/ HeaderExpansionFails(c.HeaderPatterns, tvals),
         length |-> IF stream THEN sb.length ELSE Len(buf.s),
         limit |-> IF stream THEN sb.limit ELSE -1,
         source |-> IF stream THEN "stream" ELSE "buffer",
         buffer |-> IF stream THEN <<>> ELSE buf.s,
         header |-> RequestHeader(c.HeaderPatterns, o, tvals)]

\* line 257-258: http.NewRequest refuses a method that is no token and a
\* URL that does not parse
NewRequestFails(r) ==
    \/ Len(r.method) = 0
    \/ \E i \in DOMAIN r.method : ~ValidHeaderFieldByte(r.method[i])
    \/ ~URLParses(r.link)

\* the classification Run records when the body field is no reader
MissingInputCode == "ResultMissingInput"

\* Run on task d, lines 220-274 and send up to its select: either the body
\* field is no reader, or http.NewRequest fails, or the request is built,
\* the channels and the context are made and the worker is started
RunBegin(d) ==
    /\ pc[d] = "idle"
    /\ LET inputValue == Value(vals[d], conf.RequestBodyIOKey)
       IN  IF conf.RequestBodyIOKey # <<>> /\ ~IsReader(inputValue)
           THEN /\ SetError(d, [text |-> "input got wrong value", arg |-> inputValue.t],
                            MissingInputCode)
                /\ pc' = [pc EXCEPT ![d] = "done"]
                /\ UNCHANGED <<req, w, attempts>>
           ELSE \E o \in Orders(conf.HeaderPatterns) :
                  LET r == BuildRequest(conf, vals[d], o)
                  IN  IF NewRequestFails(r)
                      THEN /\ SetError(d, [text |-> "http.NewRequest failed", arg |-> ""],
                                       "ResultInternalServerError")
                           /\ pc' = [pc EXCEPT ![d] = "done"]
                           /\ UNCHANGED <<req, w, attempts>>
                      ELSE /\ req' = [req EXCEPT ![d] = r]
                           /\ w' = [w EXCEPT ![d] = "do"]
                           /\ attempts' = [attempts EXCEPT ![d] = @ + 1]
                           /\ pc' = [pc EXCEPT ![d] = "select"]
                           /\ UNCHANGED <<errCode, errMsg, setErrors>>
    /\ UNCHANGED <<confVars, vals, callbacks, cancelVars, resp, chosen, published, wres,
                   chanVars, body, finishRuns>>

(***************************************************************************)
(* send: the worker goroutine, the select of the caller and the deferred   *)
(* closes of the two unbuffered channels.                                  *)
(***************************************************************************)
\* a worker without the deferred recover: the panic ends the process
OnSendPanicUnrecovered == "crashed"

\* what becomes of the worker when a send of it panics on a closed channel:
\* the deferred function of the goroutine recovers
OnSendPanic == "recovered"

\* the caller receives resp from r: send returns it, the worker returns
ReceiveR(d) ==
    /\ resp' = [resp EXCEPT ![d] = [status |-> wres[d].status, err |-> NoError]]
    /\ chosen' = [chosen EXCEPT ![d] = "r"]
    /\ pc' = [pc EXCEPT ![d] = "closeE"]
    /\ w' = [w EXCEPT ![d] = "exited"]

\* the caller receives err from e; the worker goes on to its send on r
ReceiveE(d) ==
    /\ resp' = [resp EXCEPT ![d] = [status |-> 0, err |-> wres[d].err]]
    /\ chosen' = [chosen EXCEPT ![d] = "e"]
    /\ pc' = [pc EXCEPT ![d] = "gotErr"]
    /\ w' = [w EXCEPT ![d] = "sendR"]

\* the caller receives from the closed channel t.Cancel()
ReceiveCancel(d) ==
    /\ chosen' = [chosen EXCEPT ![d] = "cancel"]
    /\ pc' = [pc EXCEPT ![d] = "gotCancel"]

\* whether the round trip of a request can succeed: the transport refuses
\* a URL without http scheme and a header name that is no token
Sendable(r) ==
    /\ HasHTTPScheme(r.link)
    /\ \A name \in DOMAIN r.header :
          Len(name) > 0 /\ \A i \in DOMAIN name : ValidHeaderFieldByte(name[i])

\* h.client.Do returns a response with a body; the worker reaches r <- resp
WorkerDoResponse(d, status) ==
    /\ w[d] = "do"
    /\ Sendable(req[d])
    /\ wres' = [wres EXCEPT ![d] = [status |-> status, err |-> NoError]]
    /\ body' = [body EXCEPT ![d].exists = TRUE]
    /\ w' = [w EXCEPT ![d] = "sendE"]
    /\ UNCHANGED <<confVars, taskVars, cancelVars, runVars, attempts, chanVars, finishRuns>>

\* one context for all the calls of send
ContextShared(d) == 1

\* line 189: every call of send makes its own context
ContextOf(d) == d

\* the errors Do can return now: a failed connection at any time, the
\* timeout of the client when one is set, the cancellation of the context
\* once cancel() was called, and nothing else for a request that cannot be sent
DoErrors(d) ==
    IF ~Sendable(req[d]) THEN {"unsupported request"}
    ELSE {"connection refused"}
         \cup (IF conf.TimeoutSec > 0 THEN {"client timeout"} ELSE {})
         \cup (IF ctxCancelled[ContextOf(d)] THEN {"context canceled"} ELSE {})

\* h.client.Do returns an error; the worker reaches e <- err
WorkerDoError(d, kind) ==
    /\ w[d] = "do"
    /\ kind \in DoErrors(d)
    /\ wres' = [wres EXCEPT ![d] = [status |-> 0, err |-> TransportError(kind)]]
    /\ w' = [w EXCEPT ![d] = "sendE"]
    /\ UNCHANGED <<confVars, taskVars, cancelVars, runVars, attempts, chanVars, body, finishRuns>>

\* a worker that never sends on e
ErrIsNilAlways(res) == TRUE

\* line 200: the test of err in the worker
ErrIsNil(res) == res.err = NoError

\* line 200-202: with a nil err the worker skips e <- err; otherwise the
\* send panics on a closed e, hands err to a caller parked in the select,
\* or blocks
WorkerSendE(d) ==
    /\ w[d] = "sendE"
    /\ IF ErrIsNil(wres[d])
       THEN /\ w' = [w EXCEPT ![d] = "sendR"]
            /\ UNCHANGED <<pc, resp, chosen>>
       ELSE IF eClosed[d]
       THEN /\ w' = [w EXCEPT ![d] = OnSendPanic]
            /\ UNCHANGED <<pc, resp, chosen>>
       ELSE IF pc[d] = "parked"
       THEN ReceiveE(d)
       ELSE /\ w' = [w EXCEPT ![d] = "blockedE"]
            /\ UNCHANGED <<pc, resp, chosen>>
    /\ UNCHANGED <<confVars, taskVars, cancelVars, req, published, wres, attempts,
                   chanVars, body, finishRuns>>

\* line 203: r <- resp panics on a closed r, hands resp to a caller parked
\* in the select, or blocks
WorkerSendR(d) ==
    /\ w[d] = "sendR"
    /\ IF rClosed[d]
       THEN /\ w' = [w EXCEPT ![d] = OnSendPanic]
            /\ UNCHANGED <<pc, resp, chosen>>
       ELSE IF pc[d] = "parked"
       THEN ReceiveR(d)
       ELSE /\ w' = [w EXCEPT ![d] = "blockedR"]
            /\ UNCHANGED <<pc, resp, chosen>>
    /\ UNCHANGED <<confVars, taskVars, cancelVars, req, published, wres, attempts,
                   chanVars, body, finishRuns>>

\* the cases of the select that can proceed
ReadyCases(d) ==
    (IF w[d] = "blockedR" THEN {"r"} ELSE {})
    \cup (IF w[d] = "blockedE" THEN {"e"} ELSE {})
    \cup (IF cancelled[d] THEN {"cancel"} ELSE {})

\* line 206: the caller reaches the select; it takes one of the cases that
\* can proceed, any of them, or parks when there is none
Select(d) ==
    /\ pc[d] = "select"
    /\ IF ReadyCases(d) = {}
       THEN /\ pc' = [pc EXCEPT ![d] = "parked"]
            /\ UNCHANGED <<resp, chosen, w>>
       ELSE \E c \in ReadyCases(d) :
              \/ c = "r" /\ ReceiveR(d)
              \/ c = "e" /\ ReceiveE(d)
              \/ c = "cancel" /\ ReceiveCancel(d) /\ UNCHANGED <<resp, w>>
    /\ UNCHANGED <<confVars, taskVars, cancelVars, req, published, wres, attempts,
                   chanVars, body, finishRuns>>

\* the task is cancelled with a cause: t.Cancel() is closed, which wakes a
\* caller parked in the select.  Run reads the channel in the select only,
\* so a cancellation after the select took a case is left out
CancelTask(d, cause) ==
    /\ pc[d] \in {"idle", "select", "parked"}
    /\ ~cancelled[d]
    /\ cancelled' = [cancelled EXCEPT ![d] = TRUE]
    /\ cancelCause' = [cancelCause EXCEPT ![d] = cause]
    /\ cancelAt' = [cancelAt EXCEPT ![d] = w[d]]
    /\ IF pc[d] = "parked"
       THEN ReceiveCancel(d)
       ELSE UNCHANGED <<pc, chosen>>
    /\ UNCHANGED <<confVars, taskVars, req, resp, published, workerVars, chanVars,
                   body, finishRuns>>

\* an error case that records the classification of the cancellation case
ErrorCaseCodeSwapped == "ResultTaskCancelled"

\* the classifications send records
ErrorCaseCode == "ResultServiceUnavailable"
CancelCaseCode == "ResultTaskCancelled"

\* line 209-211: the error case of the select
SendError(d) ==
    /\ pc[d] = "gotErr"
    /\ SetError(d, resp[d].err, ErrorCaseCode)
    /\ pc' = [pc EXCEPT ![d] = "closeE"]
    /\ UNCHANGED <<confVars, vals, callbacks, cancelVars, req, resp, chosen, published,
                   workerVars, chanVars, body, finishRuns>>

\* a cancellation case that does not call cancel()
CancelFuncSkipped(ctx) == ctx

\* cancel() of context.WithCancel: the context is cancelled from then on
CancelFunc(ctx) == TRUE

\* line 212-216: the cancellation case of the select
SendCancel(d) ==
    /\ pc[d] = "gotCancel"
    /\ ctxCancelled' = [ctxCancelled EXCEPT ![ContextOf(d)] = CancelFunc(@)]
    /\ SetError(d, CancelError(cancelCause[d]), CancelCaseCode)
    /\ resp' = [resp EXCEPT ![d] = [status |-> 0, err |-> CancelError(cancelCause[d])]]
    /\ pc' = [pc EXCEPT ![d] = "closeE"]
    /\ UNCHANGED <<confVars, vals, callbacks, cancelVars, req, chosen, published,
                   workerVars, eClosed, rClosed, body, finishRuns>>

\* line 187: the deferred close(e) runs first; a worker blocked in e <- err
\* panics
CloseE(d) ==
    /\ pc[d] = "closeE"
    /\ eClosed' = [eClosed EXCEPT ![d] = TRUE]
    /\ w' = [w EXCEPT ![d] = IF @ = "blockedE" THEN OnSendPanic ELSE @]
    /\ pc' = [pc EXCEPT ![d] = "closeR"]
    /\ UNCHANGED <<confVars, taskVars, cancelVars, req, resp, chosen, published, wres,
                   attempts, rClosed, ctxCancelled, body, finishRuns>>

\* line 186: the deferred close(r) runs last; a worker blocked in r <- resp
\* panics.  send returns to Run, which returns on an error (line 275-277)
CloseR(d) ==
    /\ pc[d] = "closeR"
    /\ rClosed' = [rClosed EXCEPT ![d] = TRUE]
    /\ w' = [w EXCEPT ![d] = IF @ = "blockedR" THEN OnSendPanic ELSE @]
    /\ pc' = [pc EXCEPT ![d] = IF resp[d].err # NoError THEN "done" ELSE "mapResp"]
    /\ UNCHANGED <<confVars, taskVars, cancelVars, req, resp, chosen, published, wres,
                   attempts, eClosed, ctxCancelled, body, finishRuns>>

(***************************************************************************)
(* Run after send: the response is checked and mapped into the task.       *)
(***************************************************************************)
\* a check that accepts every status code
CodeMatchesAny(c, status) == TRUE

\* line 279-280: the decimal status code against the compiled expression
CodeMatches(c, status) == MatchString(c.expectedResponseCode, ToString(status))

\* publishing the decimal text of the code
PublishedCodeText(status) == Str(ToString(status))

\* line 287: the value published under response_code_key
PublishedCode(status) == IntV(status)

\* a Run that registers the callback under every configuration
RegistersCallbackAlways(c) == TRUE

\* line 302: the callback is registered with close_body_after_pipeline only
RegistersCallback(c) == c.Close

\* the name Run registers its finish callback under
CallbackName(c) == <<c.PluginName, "closeHTTPOutputResponseBody">>

\* line 286-311 for a response whose code matched: the task state, the keys
\* written, whether a write failed and whether the callback is registered.
\* failCode and failBody say which calls of task.WithValue fail; a failed
\* call leaves the task as it was
MapResponse(c, tvals, d, status, failCode, failBody) ==
    LET wantCode == c.ResponseCodeKey # <<>>
        wantBody == c.ResponseBodyIOKey # <<>>
        vals1 == IF wantCode /\ ~failCode
                 THEN WithValue(tvals, c.ResponseCodeKey, PublishedCode(status)) ELSE tvals
        keys1 == IF wantCode /\ ~failCode THEN {c.ResponseCodeKey} ELSE {}
    IN  IF wantCode /\ failCode
        THEN [vals |-> tvals, keys |-> {}, failed |-> TRUE, register |-> FALSE]
        ELSE IF wantBody /\ failBody
        THEN [vals |-> vals1, keys |-> keys1, failed |-> TRUE, register |-> FALSE]
        ELSE [vals |-> IF wantBody
                       THEN WithValue(vals1, c.ResponseBodyIOKey, BodyOf(d)) ELSE vals1,
              keys |-> IF wantBody THEN keys1 \cup {c.ResponseBodyIOKey} ELSE keys1,
              failed |-> FALSE,
              register |-> RegistersCallback(c)]

\* Run on task d, lines 279-313.  A nil response would be dereferenced at
\* line 279 and an expression that was not compiled at line 280, which
\* panics in the goroutine of the caller
RunFinish(d) ==
    /\ pc[d] = "mapResp"
    /\ IF resp[d].status = 0 \/ conf.expectedResponseCode = NilRegexp
       THEN /\ pc' = [pc EXCEPT ![d] = "panic"]
            /\ UNCHANGED <<taskVars, published>>
       ELSE IF ~CodeMatches(conf, resp[d].status)
       THEN /\ SetError(d, [text |-> "response code doesn't match with expected",
                            arg |-> ""], "ResultInternalServerError")
            /\ pc' = [pc EXCEPT ![d] = "done"]
            /\ UNCHANGED <<vals, callbacks, published>>
       ELSE \E failCode, failBody \in BOOLEAN :
              LET m == MapResponse(conf, vals[d], d, resp[d].status, failCode, failBody)
              IN  /\ vals' = [vals EXCEPT ![d] = m.vals]
                  /\ published' = [published EXCEPT ![d] = m.keys]
                  /\ callbacks' = [callbacks EXCEPT ![d] =
                         IF m.register THEN @ \cup {CallbackName(conf)} ELSE @]
                  /\ IF m.failed
                     THEN SetError(d, [text |-> "task.WithValue failed", arg |-> ""],
                                   "ResultInternalServerError")
                     ELSE UNCHANGED <<errCode, errMsg, setErrors>>
                  /\ pc' = [pc EXCEPT ![d] = "done"]
    /\ UNCHANGED <<confVars, cancelVars, req, resp, chosen, workerVars, chanVars,
                   body, finishRuns>>

(***************************************************************************)
(* The pipeline around Run: finish callbacks and the downstream stage.     *)
(***************************************************************************)
\* a callback that stays registered
DeleteFinishedCallbackSkipped(cbs, name) == cbs

\* line 304: the callback removes its registration from the task
DeleteFinishedCallback(cbs, name) == cbs \ {name}

\* the pipeline runs the finish callbacks of task d; the callback of Run
\* (line 303-307) deregisters itself and closes the response body
FinishTask(d) ==
    /\ pc[d] = "done"
    /\ finishRuns[d] < MaxFinishRuns
    /\ finishRuns' = [finishRuns EXCEPT ![d] = @ + 1]
    /\ IF CallbackName(conf) \in callbacks[d]
       THEN /\ callbacks' = [callbacks EXCEPT ![d] =
                                DeleteFinishedCallback(@, CallbackName(conf))]
            /\ body' = [body EXCEPT ![d].closes = @ + 1]
       ELSE UNCHANGED <<callbacks, body>>
    /\ UNCHANGED <<confVars, vals, errCode, errMsg, setErrors, cancelVars, runVars,
                   workerVars, chanVars>>

\* a downstream stage reads the response body it finds under
\* response_body_io_key, before the task finishes
DownstreamRead(d) ==
    /\ pc[d] = "done"
    /\ finishRuns[d] = 0
    /\ conf.ResponseBodyIOKey # <<>>
    /\ Value(vals[d], conf.ResponseBodyIOKey) = BodyOf(d)
    /\ ~body[d].read
    /\ body' = [body EXCEPT ![d].read = TRUE]
    /\ UNCHANGED <<confVars, taskVars, cancelVars, runVars, workerVars, chanVars, finishRuns>>

(***************************************************************************)
(* Specifications.                                                         *)
(***************************************************************************)
CallerStep(d) ==
    \/ RunBegin(d)
    \/ Select(d)
    \/ SendError(d)
    \/ SendCancel(d)
    \/ CloseE(d)
    \/ CloseR(d)
    \/ RunFinish(d)

WorkerStep(d) ==
    \/ WorkerSendE(d)
    \/ WorkerSendR(d)

\* the round trip ends by itself: a response or an error of the connection
RoundTripEnds(d) ==
    \/ \E status \in StatusCodes : WorkerDoResponse(d, status)
    \/ \E kind \in {"connection refused", "unsupported request"} : WorkerDoError(d, kind)

\* the round trip is ended by the timeout of the client or by the context
RoundTripAborts(d) ==
    \E kind \in {"client timeout", "context canceled"} : WorkerDoError(d, kind)

Environment(d) ==
    \/ \E cause \in CancelCauses : CancelTask(d, cause)
    \/ FinishTask(d)
    \/ DownstreamRead(d)

Next ==
    \E d \in Tasks :
        \/ CallerStep(d)
        \/ WorkerStep(d)
        \/ RoundTripEnds(d)
        \/ RoundTripAborts(d)
        \/ Environment(d)

Spec == Init /\ [][Next]_vars

\* one task is dispatched with a fixed request and a body that is published
FairInit ==
    /\ conf \in {c \in ConfigsOf({U_plain}, {EmptyMap}, {<<"b">>}) :
                   /\ c.RequestBodyIOKey = <<>>
                   /\ c.ResponseCodeKey = <<>>
                   /\ c.ResponseBodyIOKey = K_body}
    /\ Constructed
    /\ vals = [d \in Tasks |-> EmptyMap]
    /\ InitTasks(1)

\* the goroutines are scheduled, and a round trip whose context is cancelled
\* or whose timeout is set returns; that the peer answers is not assumed
FairSpec ==
    /\ FairInit
    /\ [][Next]_vars
    /\ \A d \in Tasks :
          /\ WF_vars(CallerStep(d))
          /\ WF_vars(WorkerStep(d))
          /\ WF_vars(RoundTripAborts(d))

(***************************************************************************)
(* The life cycle of the configuration: Prepare, then the constructor.     *)
(***************************************************************************)
MaxPrepares == 2       \* runs of Prepare on one configuration

\* Prepare runs on the configuration object as it is, or on a fresh copy of
\* the raw configuration the first run was given; the header patterns are
\* visited in any order
PrepareStep ==
    /\ ~client.built
    /\ Len(prepLog) < MaxPrepares
    /\ \E input \in {conf} \cup (IF Len(prepLog) = 0 THEN {} ELSE {prepLog[1].input}) :
          \E o \in Orders(input.HeaderPatterns) :
             LET r == Prepare(input, o)
             IN  /\ conf' = r.conf
                 /\ prepLog' = Append(prepLog, PrepareRun(input, r))
    /\ UNCHANGED <<client, taskVars, cancelVars, runVars, workerVars, chanVars,
                   body, finishRuns>>

\* HTTPOutputConstructor(conf), line 147-176: the client is built from the
\* configuration as it is
ConstructStep ==
    /\ ~client.built
    /\ client' = ClientOf(conf)
    /\ UNCHANGED <<conf, prepLog, taskVars, cancelVars, runVars, workerVars, chanVars,
                   body, finishRuns>>

\* the raw configurations Prepare is given
U_ftp == <<"f", "t", "p", ":", "/", "/", "h", "/">>
U_open == S_http \o <<"h", "/", "[", "k">>
P_open == <<"[", "k">>
M_BREW == <<"B", "R", "E", "W">>
RE_bad == <<"2", "*", "*">>
H_twoBad == [x \in {<<" ">>, <<"a">>} |-> IF x = <<" ">> THEN <<"v">> ELSE P_open]

RawConfigs ==
    [ URLPattern : {U_plain, <<" ">> \o U_plain \o <<" ">>, U_ftp, U_open},
      HeaderPatterns : {EmptyMap, H_field, H_twoBad, [x \in {P_open} |-> <<"v">>]},
      Close : {TRUE},
      RequestBodyBufferPattern : {<<"b">>, P_open},
      Method : {S_POST, S_POST \o <<" ">>, M_BREW},
      ExpectedResponseCode : {RE_any, RE_bad},
      expectedResponseCode : {NilRegexp},
      TimeoutSec : {DefaultTimeoutSec},
      CertFile : {<<>>, F_cert, <<" ">>},
      KeyFile : {<<>>, F_key, F_ca},
      CAFile : {<<>>, F_ca, <<"m">>},
      Insecure : {FALSE},
      cert : {NoCert},
      caCert : {NoCACert},
      RequestBodyIOKey : {<<>>},
      ResponseCodeKey : {K_code},
      ResponseBodyIOKey : {K_body},
      PluginName : {"out"},
      CommonValid : BOOLEAN ]

\* a raw configuration before its validation; no task is dispatched
PrepareInit ==
    /\ conf \in RawConfigs
    /\ prepLog = <<>>
    /\ client = NoClient
    /\ vals = [d \in Tasks |-> EmptyMap]
    /\ InitTasks(0)

PrepareNext == PrepareStep \/ ConstructStep

PrepareSpec == PrepareInit /\ [][PrepareNext]_vars

\* the life cycle of one plugin: Prepare and the constructor in any order,
\* and Run once the constructor has returned the plugin
LifeInit ==
    /\ conf \in {c \in RawConfigs :
                   /\ c.URLPattern = U_plain /\ c.HeaderPatterns = EmptyMap
                   /\ c.CertFile = <<>> /\ c.KeyFile = <<>> /\ c.CAFile = <<>>
                   /\ c.CommonValid}
    /\ prepLog = <<>>
    /\ client = NoClient
    /\ vals = [d \in Tasks |-> EmptyMap]
    /\ InitTasks(1)

LifeNext ==
    \/ PrepareStep
    \/ ConstructStep
    \/ client.built /\ Next

LifeSpec == LifeInit /\ [][LifeNext]_vars

(***************************************************************************)
(* Two tasks dispatched concurrently through one plugin.                   *)
(***************************************************************************)
ConcInit ==
    /\ conf \in {c \in ConfigsOf({U_plain}, {EmptyMap}, {<<"b">>}) :
                   /\ c.Close /\ c.TimeoutSec = 0
                   /\ c.expectedResponseCode = RE_2xx
                   /\ c.RequestBodyIOKey = <<>>
                   /\ c.ResponseCodeKey = <<>>
                   /\ c.ResponseBodyIOKey = K_body}
    /\ Constructed
    /\ vals = [d \in Tasks |-> EmptyMap]
    /\ InitTasks(2)

ConcSpec == ConcInit /\ [][Next]_vars

(***************************************************************************)
(* The request side: header patterns that name User-Agent and the hints of *)
(* a stream body.                                                          *)
(***************************************************************************)
S_useragent == <<"u", "s", "e", "r", "-", "a", "g", "e", "n", "t">>
H_lowerAgent == [x \in {S_useragent} |-> <<"x">>]
H_twoAgents == [x \in {S_UserAgent, S_useragent} |->
                   IF x = S_UserAgent THEN <<"x">> ELSE <<"y">>]
H_fieldName == [x \in {P_field} |-> <<"x">>]

RequestHintValues ==
    {Nil, IntV(2), Str(<<>>), Str(<<"x">>), Str(<<"2">>), Str(<<"+", "2">>),
     Str(<<"-", "1">>), Str(ToString(Pow2(IntBits - 1) - 1)),
     Str(ToString(Pow2(IntBits - 1)))}

RequestInit ==
    /\ conf \in {c \in ConfigsOf({U_plain},
                                  {EmptyMap, H_lowerAgent, H_twoAgents, H_fieldName},
                                  {<<"b">>, P_field}) :
                   /\ Relevant(c)
                   /\ c.Close /\ c.TimeoutSec = DefaultTimeoutSec
                   /\ c.expectedResponseCode = RE_any
                   /\ c.ResponseCodeKey = <<>>
                   /\ c.ResponseBodyIOKey = K_body}
    /\ Constructed
    /\ \E f \in {Nil, Str(<<"a", "b">>), Str(S_useragent)} :
          \E h \in IF conf.RequestBodyIOKey = <<>> THEN {Nil} ELSE RequestHintValues :
             LET i == IF conf.RequestBodyIOKey = <<>> THEN Nil ELSE Stream(2)
             IN  vals = [d \in Tasks |-> IF d = 1 THEN TaskState(f, i, h) ELSE EmptyMap]
    /\ InitTasks(1)

RequestSpec == RequestInit /\ [][Next]_vars

(***************************************************************************)
(* Properties.                                                             *)
(***************************************************************************)
Terminated(d) == w[d] \in {"exited", "recovered"}
SendReturned(d) == pc[d] \in {"mapResp", "done", "panic"} /\ w[d] # "none"
RunReturned(d) == pc[d] = "done"

\* the status code is one the expression of the configuration accepts,
\* stated without the matcher
Accepted(c, status) ==
    \/ c.expectedResponseCode = RE_any
    \/ c.expectedResponseCode = RE_2xx /\ status \in 200..299

\* C1: in every interleaving of a send, one case of the select is acted on:
\* the error slot of the task is written at most once, no goroutine ends the
\* process, the worker delivers its result only when the select took it from
\* r, and once the select took the cancellation or the error the task holds
\* the outcome of that case and nothing was published or registered
C1_OneOutcome ==
    \A d \in Tasks :
        /\ setErrors[d] <= 1
        /\ w[d] # "crashed"
        /\ pc[d] # "panic"
        /\ w[d] = "exited" => chosen[d] = "r"
        /\ (RunReturned(d) /\ chosen[d] = "cancel") =>
              /\ errCode[d] = "ResultTaskCancelled"
              /\ setErrors[d] = 1
              /\ published[d] = {} /\ callbacks[d] = {}
        /\ (RunReturned(d) /\ chosen[d] = "e") =>
              /\ errCode[d] = "ResultServiceUnavailable"
              /\ setErrors[d] = 1
              /\ published[d] = {} /\ callbacks[d] = {}

\* C1 witness: the worker obtained a response after the cancellation was
\* acted on, its send panicked on the closed channel and was recovered
C1_Witness ==
    \E d \in Tasks :
        /\ RunReturned(d) /\ chosen[d] = "cancel"
        /\ w[d] = "recovered"
        /\ wres[d].status # 0
        /\ errCode[d] = "ResultTaskCancelled"

\* C2: when the cancellation of the task fires before the round trip of the
\* worker has returned, send takes the cancellation: it records
\* task-cancelled with the cause and returns an error, never the response
\* and never service-unavailable
C2_CancelFirstWins ==
    \A d \in Tasks :
        (cancelAt[d] \in {"none", "do"} /\ SendReturned(d)) =>
            /\ chosen[d] = "cancel"
            /\ errCode[d] = "ResultTaskCancelled"
            /\ errMsg[d] = CancelError(cancelCause[d])
            /\ resp[d].err # NoError

\* C3: the execution context is cancelled before send returns from the
\* cancellation case, and once send has returned the worker terminates
C3_WorkerTerminates ==
    /\ [](\A d \in Tasks :
            (chosen[d] = "cancel" /\ pc[d] \in {"closeE", "closeR", "done"})
                => ctxCancelled[d])
    /\ \A d \in Tasks : SendReturned(d) ~> Terminated(d)

\* C3 witness: send returned from the cancellation case and the worker, whose
\* round trip the context aborted, has terminated
C3_Witness ==
    \E d \in Tasks :
        /\ RunReturned(d) /\ chosen[d] = "cancel"
        /\ Terminated(d)
        /\ wres[d].err = TransportError("context canceled")

\* C4: under a configuration that closes the body after the pipeline or
\* publishes it, and without a failed write to the task state, once Run has
\* returned and the worker has terminated, a response body the round trip
\* obtained is closed by the registered finish callback or handed downstream
\* under response_body_io_key, and is never closed twice
C4_BodyClosedOrHanded ==
    \A d \in Tasks :
        (/\ conf.Close \/ conf.ResponseBodyIOKey # <<>>
         /\ errMsg[d].text # "task.WithValue failed"
         /\ body[d].exists /\ RunReturned(d) /\ Terminated(d)) =>
            /\ body[d].closes <= 1
            /\ \/ CallbackName(conf) \in callbacks[d]
               \/ body[d].closes = 1
               \/ /\ conf.ResponseBodyIOKey # <<>>
                  /\ Value(vals[d], conf.ResponseBodyIOKey) = BodyOf(d)

\* C5: with close_body_after_pipeline, after a successful Run the callback
\* is registered and the body open until the finish callbacks run; from
\* their first run on the body was closed exactly once and the callback is
\* no longer registered, however often they run and whether or not the
\* body was read
C5_ClosedOnceAtFinish ==
    \A d \in Tasks :
        (conf.Close /\ RunReturned(d) /\ chosen[d] = "r" /\ errCode[d] = "None") =>
            /\ finishRuns[d] = 0 =>
                  body[d].closes = 0 /\ CallbackName(conf) \in callbacks[d]
            /\ finishRuns[d] >= 1 =>
                  body[d].closes = 1 /\ callbacks[d] = {}

\* C5 witness: the finish callbacks ran twice after the body was read
C5_Witness ==
    \E d \in Tasks :
        /\ conf.Close /\ RunReturned(d) /\ chosen[d] = "r" /\ errCode[d] = "None"
        /\ body[d].read
        /\ finishRuns[d] = 2
        /\ body[d].closes = 1

\* C6: a response whose status code the expression "2.." does not accept
\* leaves an internal-error classification, nothing published (no response
\* code in the task state) and no finish callback
C6_MismatchPublishesNothing ==
    \A d \in Tasks :
        (RunReturned(d) /\ chosen[d] = "r" /\ ~Accepted(conf, resp[d].status)) =>
            /\ errCode[d] = "ResultInternalServerError"
            /\ published[d] = {}
            /\ Value(vals[d], K_code) = Nil /\ Value(vals[d], K_body) = Nil
            /\ callbacks[d] = {}

\* C6 witness: status 500 against "2.." with response_code_key set
C6_Witness ==
    \E d \in Tasks :
        /\ RunReturned(d) /\ chosen[d] = "r"
        /\ resp[d].status = 500 /\ conf.expectedResponseCode = RE_2xx
        /\ conf.ResponseCodeKey = K_code
        /\ errCode[d] = "ResultInternalServerError"

\* C7: with request_body_io_key set and the field absent or no stream, once
\* Run has acted it has returned with the missing-input classification, no
\* worker was started, no round trip attempted, nothing published and no
\* callback registered
C7_MissingInputNoDispatch ==
    \A d \in Tasks :
        (/\ pc[d] \notin {"absent", "idle"}
         /\ conf.RequestBodyIOKey # <<>>
         /\ Value(vals[d], conf.RequestBodyIOKey).t \notin {"stream", "body"}) =>
            /\ RunReturned(d)
            /\ errCode[d] = "ResultMissingInput"
            /\ setErrors[d] = 1
            /\ w[d] = "none" /\ attempts[d] = 0 /\ req[d] = NoRequest
            /\ published[d] = {} /\ callbacks[d] = {}

\* C7 witness: the body field holds a string
C7_Witness ==
    \E d \in Tasks :
        /\ RunReturned(d)
        /\ conf.RequestBodyIOKey = K_in
        /\ Value(vals[d], K_in) = Str(<<"x">>)
        /\ errCode[d] = "ResultMissingInput"

C9_CodePublished ==
    \A d \in Tasks :
        (/\ RunReturned(d) /\ chosen[d] = "r"
         /\ Accepted(conf, resp[d].status)
         /\ conf.ResponseCodeKey # <<>>
         /\ errMsg[d].text # "task.WithValue failed"
         /\ req[d].expandErr = FALSE) =>
            /\ Value(vals[d], conf.ResponseCodeKey) = IntV(resp[d].status)
            /\ errCode[d] = "None"

\* C9 amended: ... either a write to the task state failed and Run recorded
\* an internal error, or no error is recorded and the task holds the integer
\* code under the key, provided response_body_io_key is another key
C9_CodePublishedUnlessShadowed ==
    \A d \in Tasks :
        (/\ RunReturned(d) /\ chosen[d] = "r"
         /\ Accepted(conf, resp[d].status)
         /\ conf.ResponseCodeKey # <<>>
         /\ req[d].expandErr = FALSE) =>
            \/ /\ errCode[d] = "ResultInternalServerError"
               /\ errMsg[d].text = "task.WithValue failed"
            \/ /\ errCode[d] = "None"
               /\ conf.ResponseCodeKey \in published[d]
               /\ conf.ResponseBodyIOKey # conf.ResponseCodeKey =>
                     Value(vals[d], conf.ResponseCodeKey) = IntV(resp[d].status)
               /\ conf.ResponseBodyIOKey = conf.ResponseCodeKey =>
                     Value(vals[d], conf.ResponseCodeKey) = BodyOf(d)

\* C9 witness: status 200 against "2.." published as the integer 200
C9_Witness ==
    \E d \in Tasks :
        /\ RunReturned(d) /\ chosen[d] = "r"
        /\ conf.expectedResponseCode = RE_2xx
        /\ conf.ResponseCodeKey = K_code /\ conf.ResponseBodyIOKey = K_body
        /\ Value(vals[d], K_code) = IntV(200)
        /\ errCode[d] = "None"

\* C10: when the expansion of the URL pattern fails (and the body field, if
\* configured, is a stream), Run records an internal error and attempts no
\* round trip
C10_ExpansionFailurePropagated ==
    \A d \in Tasks :
        (/\ pc[d] \notin {"absent", "idle"}
         /\ conf.RequestBodyIOKey # <<>> =>
               Value(vals[d], conf.RequestBodyIOKey).t = "stream"
         /\ ReplaceTokensInPattern(vals[d], conf.URLPattern).err) =>
            /\ errCode[d] = "ResultInternalServerError"
            /\ attempts[d] = 0

\* all the state of the dispatch of task d
TaskView(d) ==
    <<vals[d], errCode[d], errMsg[d], setErrors[d], callbacks[d],
      cancelled[d], cancelCause[d], cancelAt[d],
      pc[d], req[d], resp[d], chosen[d], published[d],
      w[d], wres[d], attempts[d],
      eClosed[d], rClosed[d], ctxCancelled[d], body[d], finishRuns[d]>>

\* C11: with two tasks dispatched concurrently through one plugin, a task
\* that was not cancelled never takes the cancellation case, never has its
\* context cancelled or its round trip aborted by a context, and never
\* holds task-cancelled; every step changes the channels, worker, context
\* and task of one dispatch only, and none writes the configuration or the
\* client
C11_Independent ==
    /\ [](\A d \in Tasks :
            ~cancelled[d] =>
                /\ chosen[d] # "cancel"
                /\ ~ctxCancelled[d]
                /\ wres[d].err # TransportError("context canceled")
                /\ errCode[d] # "ResultTaskCancelled")
    /\ [][/\ \A d, o \in Tasks :
              (d # o /\ TaskView(d)' # TaskView(d)) => TaskView(o)' = TaskView(o)
           /\ confVars' = confVars]_vars

\* C11 witness: one task was cancelled while both were in flight and holds
\* task-cancelled, the other went on to a response and a successful Run
C11_Witness ==
    \E d, o \in Tasks :
        /\ d # o
        /\ RunReturned(d) /\ chosen[d] = "cancel" /\ errCode[d] = "ResultTaskCancelled"
        /\ ctxCancelled[d]
        /\ RunReturned(o) /\ chosen[o] = "r" /\ errCode[o] = "None"
        /\ ~cancelled[o] /\ ~ctxCancelled[o]

\* the method of a raw configuration, as Prepare looks at it
MethodOutside(c) == TrimSpace(c.Method) \notin supportedMethods

\* C12: a run of Prepare on a configuration whose method is outside the
\* allow-list (and whose common part is valid) returns the method error,
\* whatever the other fields are
C12_MethodErrorAlways ==
    \A i \in DOMAIN prepLog :
        (prepLog[i].input.CommonValid /\ MethodOutside(prepLog[i].input)) =>
            prepLog[i].err = ErrMethod

\* C12 amended: such a run always returns an error; it is the method error
\* whenever the common configuration, the URL and the header patterns are
\* valid, whatever the expected response code, the body pattern and the TLS
\* files are, and otherwise the error of one of these earlier checks
C12_MethodErrorUnlessEarlier ==
    \A i \in DOMAIN prepLog :
        LET c == prepLog[i].input
        IN  MethodOutside(c) =>
              /\ prepLog[i].err \in {ErrCommon, ErrURL, ErrURLPattern, ErrHeaderName,
                                     ErrHeaderNamePattern, ErrHeaderValuePattern, ErrMethod}
              /\ (/\ c.CommonValid
                  /\ TrimSpace(c.URLPattern) \in {U_plain, U_field}
                  /\ c.HeaderPatterns \in {EmptyMap, H_field}) <=> prepLog[i].err = ErrMethod

\* C12 witness: the method error for a configuration whose expression does
\* not compile, whose body pattern is broken and whose CA file is missing
C12_Witness ==
    \E i \in DOMAIN prepLog :
        /\ prepLog[i].input.Method = M_BREW
        /\ prepLog[i].input.ExpectedResponseCode = RE_bad
        /\ prepLog[i].input.RequestBodyBufferPattern = P_open
        /\ ~ReadFile(prepLog[i].input.CAFile)
        /\ prepLog[i].err = ErrMethod

\* C13: a run of Prepare on a configuration with exactly one of cert_file
\* and key_file (the other empty after trimming) returns an error, and a
\* client certificate is loaded only from a certificate and its key
C13_AsymmetricCertFails ==
    \A i \in DOMAIN prepLog :
        LET certFile == TrimSpace(prepLog[i].input.CertFile)
            keyFile == TrimSpace(prepLog[i].input.KeyFile)
        IN  /\ ((certFile = <<>>) # (keyFile = <<>>)) => prepLog[i].err # NoPrepareError
            /\ prepLog[i].conf.cert # NoCert => certFile = F_cert /\ keyFile = F_key

\* C14: two runs of Prepare on the same raw configuration, or a run on the
\* configuration another run left, return the same error and, without
\* error, leave the same configuration
C14_PrepareDeterministic ==
    \A i, j \in DOMAIN prepLog :
        (\/ prepLog[j].input = prepLog[i].input
         \/ prepLog[j].input = prepLog[i].conf) =>
            /\ prepLog[j].err = prepLog[i].err
            /\ prepLog[i].err = NoPrepareError => prepLog[j].conf = prepLog[i].conf

\* the configuration is the result of a run of Prepare that returned no
\* error
Validated ==
    /\ Len(prepLog) > 0
    /\ prepLog[Len(prepLog)].err = NoPrepareError
    /\ prepLog[Len(prepLog)].conf = conf

\* C15: over any sequence of Prepare, HTTPOutputConstructor and Run, a
\* client is constructed and a round trip attempted only with a
\* configuration that was validated without error, and Run never uses an
\* expression that was not compiled
C15_ValidatedBeforeUse ==
    /\ client.built => Validated
    /\ \A d \in Tasks :
          /\ attempts[d] > 0 => Validated
          /\ pc[d] # "panic"
          /\ pc[d] = "mapResp" => conf.expectedResponseCode # NilRegexp

\* C16: without close_body_after_pipeline no finish callback is registered
\* and the body is never closed, in every state of every Run
C16_NoCloseWithoutOption ==
    ~conf.Close =>
        \A d \in Tasks : callbacks[d] = {} /\ body[d].closes = 0

\* C16 witness: a successful Run published the body, the finish callbacks
\* ran and the body is still open
C16_Witness ==
    \E d \in Tasks :
        /\ ~conf.Close
        /\ RunReturned(d) /\ chosen[d] = "r" /\ errCode[d] = "None"
        /\ Value(vals[d], K_body) = BodyOf(d)
        /\ finishRuns[d] >= 1
        /\ body[d].closes = 0

\* C17: the select receives from r only what a round trip without error
\* sent, so that a send that returned a nil error returned a response, and
\* Run never dereferences a nil response
C17_NilErrorHasResponse ==
    \A d \in Tasks :
        /\ chosen[d] = "r" => wres[d].err = NoError /\ wres[d].status # 0
        /\ (SendReturned(d) /\ resp[d].err = NoError) =>
              resp[d].status \in StatusCodes
        /\ pc[d] # "panic"

\* C17 witness: the select took the error, and the nil response the worker
\* sent after it ended in the recovered panic
C17_Witness ==
    \E d \in Tasks :
        /\ RunReturned(d) /\ chosen[d] = "e"
        /\ wres[d].err # NoError /\ wres[d].status = 0
        /\ w[d] = "recovered" /\ rClosed[d]

\* C18: every request a round trip was attempted with carries User-Agent
\* with the value EaseGateway, and no header whose name differs from
\* User-Agent by the case of its letters only
C18_FixedUserAgent ==
    \A d \in Tasks :
        attempts[d] > 0 =>
            /\ S_UserAgent \in DOMAIN req[d].header
            /\ req[d].header[S_UserAgent] = S_EaseGateway
            /\ \A name \in DOMAIN req[d].header :
                  (/\ Len(name) = Len(S_UserAgent)
                   /\ \A i \in DOMAIN name : ToLower(name[i]) = ToLower(S_UserAgent[i]))
                      => name = S_UserAgent

\* C18 witness: the header patterns name User-Agent twice, in two spellings
C18_Witness ==
    \E d \in Tasks :
        /\ attempts[d] > 0
        /\ conf.HeaderPatterns = H_twoAgents
        /\ req[d].header[S_UserAgent] = S_EaseGateway

\* the number a string of decimal digits denotes
RECURSIVE DecimalValue(_)
DecimalValue(s) ==
    IF Len(s) = 0 THEN 0
    ELSE 10 * DecimalValue(SubSeq(s, 1, Len(s) - 1)) + DigitVal(s[Len(s)])

\* the hint is a string that denotes a non-negative integer of the width
HintIsNonNegative(v) ==
    LET ds == IF Len(v.s) > 0 /\ v.s[1] = "+" THEN Tail(v.s) ELSE v.s
    IN  /\ v.t = "str"
        /\ Len(ds) > 0
        /\ \A i \in DOMAIN ds : IsDigit(ds[i])
        /\ DecimalValue(ds) < Pow2(IntBits - 1)

HintNumber(v) ==
    DecimalValue(IF v.s[1] = "+" THEN Tail(v.s) ELSE v.s)

\* C19: with a stream body the content length of the request is the hint
\* and the read is bounded to it exactly when the hint denotes a
\* non-negative integer, and in every other case the content length is 0
\* and the read unbounded; with a buffer body the content length is the
\* length of the expanded body
C19_ContentLength ==
    \A d \in Tasks :
        attempts[d] > 0 =>
            LET hint == Value(vals[d], K_len)
            IN  IF req[d].source = "stream"
                THEN IF HintIsNonNegative(hint)
                     THEN /\ req[d].length = HintNumber(hint)
                          /\ req[d].limit = HintNumber(hint)
                     ELSE /\ req[d].length = 0
                          /\ req[d].limit = -1
                ELSE req[d].length = Len(req[d].buffer)

====
